---- MODULE Spec2Model ----
(***************************************************************************)
(* Model of 04_Optimizer_Loss.ipynb run in cell order: four gradient       *)
(* descent loops for a one-feature linear regression, written first with   *)
(* explicit tensors a and b, then with nn.MSELoss, then with an nn.Module, *)
(* and finally with a train_step closure built by make_train_step.         *)
(*                                                                         *)
(* Tensors are objects on a heap (identity matters: an optimizer holds     *)
(* references to the tensors it was built with).  Numbers are exact        *)
(* rationals [n, d]; float32 rounding is not modelled.                     *)
(***************************************************************************)
EXTENDS Integers, Sequences, FiniteSets, TLC

\* ---------------------------------------------------------------- bounds
\* n_epochs is 1000 in the notebook; the loops are cut after MaxEpochs.
MaxEpochs == 2
\* number of training points produced by generate_data.py
NPoints == 2

\* values the training data and the random generators may produce
XVals == {0, 1}
YVals == {1, 3}
RandVals == {0, 1}

\* ---------------------------------------------------- rational arithmetic
RECURSIVE GCD(_, _)
GCD(m, n) == IF n = 0 THEN m ELSE GCD(n, m % n)

Abs(i) == IF i < 0 THEN -i ELSE i

\* the rational n/d in lowest terms, d > 0
Rat(n, d) == LET g == GCD(Abs(n), d) IN [n |-> n \div g, d |-> d \div g]

R(i) == [n |-> i, d |-> 1]
Zero == R(0)

\* Python's None where a number is expected (a tensor's .grad before backward)
None == [n |-> 0, d |-> 0]

RAdd(p, q) == LET l == (p.d \div GCD(p.d, q.d)) * q.d
              IN  Rat(p.n * (l \div p.d) + q.n * (l \div q.d), l)
RNeg(p) == [n |-> -p.n, d |-> p.d]
RSub(p, q) == RAdd(p, RNeg(q))
RMul(p, q) == LET g1 == GCD(Abs(p.n), q.d)
                  g2 == GCD(Abs(q.n), p.d)
              IN  IF p.n = 0 \/ q.n = 0 THEN Zero
                  ELSE Rat((p.n \div g1) * (q.n \div g2), (p.d \div g2) * (q.d \div g1))
RDivInt(p, k) == RMul(p, [n |-> 1, d |-> k])

RECURSIVE RSum(_)
RSum(s) == IF s = <<>> THEN Zero ELSE RAdd(Head(s), RSum(Tail(s)))

\* elementwise tensor operations on sequences of rationals
TMean(s) == RDivInt(RSum(s), Len(s))
TSum(s) == RSum(s)

\* ------------------------------------------------------------ hyper-params
lr == [n |-> 1, d |-> 10]
n_epochs == MaxEpochs

\* --------------------------------------------------------------- state
VARIABLES
    pc,              \* the notebook cell being run
    epoch,           \* completed iterations of the running cell's loop
    device,          \* 'cuda' or 'cpu', chosen by generate_data.py
    stream,          \* numbers each device's generator yields after manual_seed(42)
    rng,             \* per device, how many numbers were drawn since the seed
    x_train_tensor, y_train_tensor,
    tensors,         \* heap: tensor id -> [data, grad]
    a, b,            \* ids the names a and b are bound to
    optimizer,       \* [params: tensor ids, lr]
    loss_fn,         \* [reduction]
    modules,         \* heap: module id -> [cls, params, training]
    model,           \* id the name model is bound to
    train_step,      \* closure [model, loss_fn, optimizer]
    loss, losses,
    frame,           \* the running train_step call: [pc, yhat, loss, pre, bgrad]
    calls,           \* framework calls made by the latest train_step call
    hist,            \* per loop, the values after each epoch
    man              \* a and b under the manual update the optimizer replaces

vars == <<pc, epoch, device, stream, rng, x_train_tensor, y_train_tensor,
          tensors, a, b, optimizer, loss_fn, modules, model, train_step,
          loss, losses, frame, calls, hist, man>>

env == <<device, stream, x_train_tensor, y_train_tensor>>

Unbound == ""
NoOptimizer == [params |-> <<>>, lr |-> None]
NoLossFn == [reduction |-> Unbound]
NoFrame == [pc |-> 0, yhat |-> <<>>, loss |-> None, pre |-> <<>>, bgrad |-> <<>>]
NoClosure == [model |-> Unbound, loss_fn |-> NoLossFn, optimizer |-> NoOptimizer]

Devices == {"cpu", "cuda"}

\* -------------------------------------------------------------- framework
\* torch.manual_seed: restarts the generator of every device
manual_seed(r) == [dev \in Devices |-> 0]

\* torch.randn(1, device=dev): the next number of that device's generator
randn_value(r, dev) == R(stream[dev][r[dev] + 1])
randn_advance(r, dev) == [r EXCEPT ![dev] = @ + 1]

\* a fresh leaf tensor: data, no gradient yet
Tensor(v) == [data |-> v, grad |-> None]

\* optim.SGD(params, lr=lr)
SGD(params, rate) == [params |-> params, lr |-> rate]

Range(s) == {s[i] : i \in 1..Len(s)}

\* faulty variant of SGD_step: gradient ascent, p <- p + lr * p.grad
SGD_step_wrong(opt, ts) ==
    [id \in DOMAIN ts |->
        IF id \in Range(opt.params) /\ ts[id].grad # None
        THEN [ts[id] EXCEPT !.data = RAdd(@, RMul(opt.lr, ts[id].grad))]
        ELSE ts[id]]

\* optimizer.step(): p <- p - lr * p.grad for each parameter that has a gradient
SGD_step(opt, ts) ==
    [id \in DOMAIN ts |->
        IF id \in Range(opt.params) /\ ts[id].grad # None
        THEN [ts[id] EXCEPT !.data = RSub(@, RMul(opt.lr, ts[id].grad))]
        ELSE ts[id]]

\* optimizer.zero_grad(): p.grad.zero_() for each parameter that has a gradient
\* (the notebook's kernel is Python 3.7, whose torch releases zero in place
\* rather than resetting .grad to None)
SGD_zero_grad(opt, ts) ==
    [id \in DOMAIN ts |->
        IF id \in Range(opt.params) /\ ts[id].grad # None
        THEN [ts[id] EXCEPT !.grad = Zero]
        ELSE ts[id]]

\* yhat = intercept + slope * x, elementwise over the training points
Affine(ts, g, x) ==
    [i \in 1..Len(x) |-> RAdd(ts[g.intercept].data, RMul(ts[g.slope].data, R(x[i])))]

\* gradient of the loss w.r.t. the two leaves of yhat = intercept + slope * x,
\* given gy = d loss / d yhat
LeafGrads(g, x, gy) ==
    (g.intercept :> TSum(gy)) @@
    (g.slope :> TSum([i \in 1..Len(x) |-> RMul(gy[i], R(x[i]))]))

\* loss.backward(): adds the gradient to .grad of every leaf (sets it if None)
backward(ts, lg) ==
    [id \in DOMAIN ts |->
        IF id \in DOMAIN lg
        THEN [ts[id] EXCEPT !.grad = IF @ = None THEN lg[id] ELSE RAdd(@, lg[id])]
        ELSE ts[id]]

\* error = y - yhat; loss = (error ** 2).mean()
ManualLoss(y, yhat) ==
    LET error == [i \in 1..Len(y) |-> RSub(R(y[i]), yhat[i])]
    IN  TMean([i \in 1..Len(y) |-> RMul(error[i], error[i])])

\* d loss / d yhat of the manual loss: mean -> 1/N, ** 2 -> 2 * error, y - yhat -> -1
ManualLoss_grad(y, yhat) ==
    LET error == [i \in 1..Len(y) |-> RSub(R(y[i]), yhat[i])]
    IN  [i \in 1..Len(y) |-> RNeg(RDivInt(RMul(R(2), error[i]), Len(y)))]

\* faulty variant of MSELoss: always reduction='sum'
MSELoss_sum(fn, input, target) ==
    LET sq == [i \in 1..Len(input) |->
                 RMul(RSub(R(input[i]), target[i]), RSub(R(input[i]), target[i]))]
    IN  TSum(sq)

\* nn.MSELoss(reduction=...)(input, target)
MSELoss(fn, input, target) ==
    LET sq == [i \in 1..Len(input) |->
                 RMul(RSub(R(input[i]), target[i]), RSub(R(input[i]), target[i]))]
    IN  IF fn.reduction = "mean" THEN TMean(sq) ELSE TSum(sq)

\* d loss / d target of the MSE loss (the predictions are passed as target)
MSELoss_grad_target(fn, input, target) ==
    [i \in 1..Len(input) |->
        LET g == RMul(R(-2), RSub(R(input[i]), target[i]))
        IN  IF fn.reduction = "mean" THEN RDivInt(g, Len(input)) ELSE g]

\* ------------------------------------------------------------------ models
\* faulty variant of ManualLinearRegression.forward: self.b + self.a * x
ManualLinearRegression_forward_swapped(m) ==
    [intercept |-> m.params[2], slope |-> m.params[1]]

\* ManualLinearRegression.forward: self.a + self.b * x
ManualLinearRegression_forward(m) ==
    [intercept |-> m.params[1], slope |-> m.params[2]]

\* nn.Sequential(nn.Linear(1, 1)).forward: x * weight + bias
Linear_forward(m) ==
    [intercept |-> m.params[2], slope |-> m.params[1]]

\* model(x): the leaves the prediction is computed from
forward(m) ==
    IF m.cls = "ManualLinearRegression" THEN ManualLinearRegression_forward(m)
    ELSE Linear_forward(m)

\* model.parameters(): the registered parameters, in registration order
parameters(m) == m.params

\* model.state_dict(): the current value of every parameter
state_dict(m, ts) == [i \in 1..Len(m.params) |-> ts[m.params[i]].data]

\* model.train()
train(ms, id) == [ms EXCEPT ![id].training = TRUE]

\* ---------------------------------------------------------------- history
Entry(av, bv, l, ga, gb) == [a |-> av, b |-> bv, loss |-> l, ga |-> ga, gb |-> gb]

\* ------------------------------------------------------------------- Init
Datasets == [1..NPoints -> XVals] \X [1..NPoints -> YVals]

Init ==
    /\ pc = "cell7"
    /\ epoch = 0
    /\ device \in Devices
    /\ stream \in [Devices -> [1..4 -> RandVals]]
    \* a generator is only drawn from on the device the notebook uses it on
    /\ device = "cpu" => stream["cuda"] = [i \in 1..4 |-> 0]
    /\ \A i \in 3..4 : stream["cuda"][i] = 0
    /\ rng = [dev \in Devices |-> 0]
    /\ \E ds \in Datasets : x_train_tensor = ds[1] /\ y_train_tensor = ds[2]
    /\ tensors = [id \in {} |-> Tensor(Zero)]
    /\ a = Unbound /\ b = Unbound
    /\ optimizer = NoOptimizer
    /\ loss_fn = NoLossFn
    /\ modules = [id \in {} |-> [cls |-> Unbound, params |-> <<>>, training |-> TRUE]]
    /\ model = Unbound
    /\ train_step = NoClosure
    /\ loss = None /\ losses = <<>>
    /\ frame = NoFrame
    /\ calls = <<>>
    /\ hist = [c \in {"cell8", "cell9", "cell11"} |-> <<>>]
    /\ man = [id \in {} |-> Tensor(Zero)]

\* ------------------------------------------------------------ cells 7, 8
\* torch.manual_seed(42); a, b = randn on the device; optimizer = SGD([a, b])
Cell7 ==
    /\ pc = "cell7"
    /\ LET r0 == manual_seed(rng)
           av == randn_value(r0, device)
           r1 == randn_advance(r0, device)
           bv == randn_value(r1, device)
           r2 == randn_advance(r1, device)
       IN  /\ rng' = r2
           /\ tensors' = tensors @@ ("c7.a" :> Tensor(av)) @@ ("c7.b" :> Tensor(bv))
           /\ man' = ("a" :> Tensor(av)) @@ ("b" :> Tensor(bv))
           /\ hist' = [hist EXCEPT !["cell8"] = <<Entry(av, bv, None, None, None)>>]
    /\ a' = "c7.a" /\ b' = "c7.b"
    /\ optimizer' = SGD(<<"c7.a", "c7.b">>, lr)
    /\ pc' = "cell8" /\ epoch' = 0
    /\ UNCHANGED <<env, loss_fn, modules, model, train_step, loss, losses, frame, calls>>

\* the loop body the optimizer replaces:
\*   a -= lr * a.grad; b -= lr * b.grad; a.grad.zero_(); b.grad.zero_()
ManualEpoch(m, x, y) ==
    LET g    == [intercept |-> "a", slope |-> "b"]
        yhat == Affine(m, g, x)
        m1   == backward(m, LeafGrads(g, x, ManualLoss_grad(y, yhat)))
        m2   == [m1 EXCEPT !["a"].data = RSub(@, RMul(lr, m1["a"].grad)),
                           !["b"].data = RSub(@, RMul(lr, m1["b"].grad))]
    IN  [m2 EXCEPT !["a"].grad = Zero, !["b"].grad = Zero]

\* one iteration of the loop of cell 8
Cell8Epoch ==
    /\ pc = "cell8" /\ epoch < n_epochs
    /\ LET g    == [intercept |-> a, slope |-> b]
           yhat == Affine(tensors, g, x_train_tensor)
           l    == ManualLoss(y_train_tensor, yhat)
           t1   == backward(tensors, LeafGrads(g, x_train_tensor,
                                      ManualLoss_grad(y_train_tensor, yhat)))
           t2   == SGD_step(optimizer, t1)
           t3   == SGD_zero_grad(optimizer, t2)
       IN  /\ loss' = l
           /\ tensors' = t3
           /\ hist' = [hist EXCEPT !["cell8"] =
                         Append(@, Entry(t3[a].data, t3[b].data, l, t1[a].grad, t1[b].grad))]
    /\ man' = ManualEpoch(man, x_train_tensor, y_train_tensor)
    /\ epoch' = epoch + 1
    /\ UNCHANGED <<pc, env, rng, a, b, optimizer, loss_fn, modules, model,
                   train_step, losses, frame, calls>>

\* print(a, b)
Cell8Print ==
    /\ pc = "cell8" /\ epoch = n_epochs
    /\ pc' = "cell9"
    /\ UNCHANGED <<epoch, env, rng, tensors, a, b, optimizer, loss_fn, modules, model,
                   train_step, loss, losses, frame, calls, hist, man>>

\* ---------------------------------------------------------------- cell 9
\* same start as cell 7, plus loss_fn = nn.MSELoss(reduction='mean')
Cell9Setup ==
    /\ pc = "cell9"
    /\ LET r0 == manual_seed(rng)
           av == randn_value(r0, device)
           r1 == randn_advance(r0, device)
           bv == randn_value(r1, device)
           r2 == randn_advance(r1, device)
       IN  /\ rng' = r2
           /\ tensors' = tensors @@ ("c9.a" :> Tensor(av)) @@ ("c9.b" :> Tensor(bv))
           /\ hist' = [hist EXCEPT !["cell9"] = <<Entry(av, bv, None, None, None)>>]
    /\ a' = "c9.a" /\ b' = "c9.b"
    /\ loss_fn' = [reduction |-> "mean"]
    /\ optimizer' = SGD(<<"c9.a", "c9.b">>, lr)
    /\ pc' = "cell9_loop" /\ epoch' = 0
    /\ UNCHANGED <<env, modules, model, train_step, loss, losses, frame, calls, man>>

\* one iteration of the loop of cell 9: loss = loss_fn(y_train_tensor, yhat)
Cell9Epoch ==
    /\ pc = "cell9_loop" /\ epoch < n_epochs
    /\ LET g    == [intercept |-> a, slope |-> b]
           yhat == Affine(tensors, g, x_train_tensor)
           l    == MSELoss(loss_fn, y_train_tensor, yhat)
           t1   == backward(tensors, LeafGrads(g, x_train_tensor,
                                      MSELoss_grad_target(loss_fn, y_train_tensor, yhat)))
           t2   == SGD_step(optimizer, t1)
           t3   == SGD_zero_grad(optimizer, t2)
       IN  /\ loss' = l
           /\ tensors' = t3
           /\ hist' = [hist EXCEPT !["cell9"] =
                         Append(@, Entry(t3[a].data, t3[b].data, l, t1[a].grad, t1[b].grad))]
    /\ epoch' = epoch + 1
    /\ UNCHANGED <<pc, env, rng, a, b, optimizer, loss_fn, modules, model,
                   train_step, losses, frame, calls, man>>

Cell9Print ==
    /\ pc = "cell9_loop" /\ epoch = n_epochs
    /\ pc' = "cell11"
    /\ UNCHANGED <<epoch, env, rng, tensors, a, b, optimizer, loss_fn, modules, model,
                   train_step, loss, losses, frame, calls, hist, man>>

\* --------------------------------------------------------------- cell 11
\* model = ManualLinearRegression().to(device): a and b are drawn on the CPU
\* and moved; optimizer = SGD(model.parameters())
Cell11Setup ==
    /\ pc = "cell11"
    /\ LET r0 == manual_seed(rng)
           av == randn_value(r0, "cpu")
           r1 == randn_advance(r0, "cpu")
           bv == randn_value(r1, "cpu")
           r2 == randn_advance(r1, "cpu")
           m  == [cls |-> "ManualLinearRegression", params |-> <<"mlr.a", "mlr.b">>,
                  training |-> TRUE]
       IN  /\ rng' = r2
           /\ tensors' = tensors @@ ("mlr.a" :> Tensor(av)) @@ ("mlr.b" :> Tensor(bv))
           /\ modules' = modules @@ ("mlr" :> m)
           /\ optimizer' = SGD(parameters(m), lr)
           /\ hist' = [hist EXCEPT !["cell11"] = <<Entry(av, bv, None, None, None)>>]
    /\ model' = "mlr"
    /\ loss_fn' = [reduction |-> "mean"]
    /\ pc' = "cell11_loop" /\ epoch' = 0
    /\ UNCHANGED <<env, a, b, train_step, loss, losses, frame, calls, man>>

\* one iteration of the loop of cell 11
Cell11Epoch ==
    /\ pc = "cell11_loop" /\ epoch < n_epochs
    /\ LET ms   == train(modules, model)
           g    == forward(ms[model])
           yhat == Affine(tensors, g, x_train_tensor)
           l    == MSELoss(loss_fn, y_train_tensor, yhat)
           t1   == backward(tensors, LeafGrads(g, x_train_tensor,
                                      MSELoss_grad_target(loss_fn, y_train_tensor, yhat)))
           t2   == SGD_step(optimizer, t1)
           t3   == SGD_zero_grad(optimizer, t2)
           sd   == state_dict(ms[model], t3)
           gd   == [i \in 1..2 |-> t1[ms[model].params[i]].grad]
       IN  /\ modules' = ms
           /\ loss' = l
           /\ tensors' = t3
           /\ hist' = [hist EXCEPT !["cell11"] =
                         Append(@, Entry(sd[1], sd[2], l, gd[1], gd[2]))]
    /\ epoch' = epoch + 1
    /\ UNCHANGED <<pc, env, rng, a, b, optimizer, loss_fn, model,
                   train_step, losses, frame, calls, man>>

\* print(model.state_dict())
Cell11Print ==
    /\ pc = "cell11_loop" /\ epoch = n_epochs
    /\ pc' = "cell13"
    /\ UNCHANGED <<epoch, env, rng, tensors, a, b, optimizer, loss_fn, modules, model,
                   train_step, loss, losses, frame, calls, hist, man>>

\* --------------------------------------------------------------- cell 13
\* model = nn.Sequential(nn.Linear(1, 1)).to(device): weight and bias are new
\* tensors drawn from the CPU generator; optimizer and loss_fn are not touched
Cell13 ==
    /\ pc = "cell13"
    /\ LET wv == randn_value(rng, "cpu")
           r1 == randn_advance(rng, "cpu")
           bv == randn_value(r1, "cpu")
           r2 == randn_advance(r1, "cpu")
           m  == [cls |-> "Sequential", params |-> <<"seq.0.weight", "seq.0.bias">>,
                  training |-> TRUE]
       IN  /\ rng' = r2
           /\ tensors' = tensors @@ ("seq.0.weight" :> Tensor(wv))
                                 @@ ("seq.0.bias" :> Tensor(bv))
           /\ modules' = modules @@ ("seq" :> m)
    /\ model' = "seq"
    /\ pc' = "cell14"
    /\ UNCHANGED <<epoch, env, a, b, optimizer, loss_fn, train_step, loss, losses,
                   frame, calls, hist, man>>

\* --------------------------------------------------------------- cell 14
\* the closure returned by make_train_step
make_train_step(m, lf, opt) == [model |-> m, loss_fn |-> lf, optimizer |-> opt]

\* faulty variant of train_step: gradients zeroed before the update
TrainStepBody_reordered ==
    <<"train", "forward", "loss", "backward", "zero_grad", "step", "return">>

\* the statements of train_step, in program order
TrainStepBody ==
    <<"train", "forward", "loss", "backward", "step", "zero_grad", "return">>

\* train_step = make_train_step(model, loss_fn, optimizer); losses = []
Cell14Setup ==
    /\ pc = "cell14"
    /\ train_step' = make_train_step(model, loss_fn, optimizer)
    /\ losses' = <<>>
    /\ pc' = "cell14_loop" /\ epoch' = 0
    /\ UNCHANGED <<env, rng, tensors, a, b, optimizer, loss_fn, modules, model,
                   loss, frame, calls, hist, man>>

AtStmt(name) ==
    /\ pc = "cell14_loop"
    /\ frame.pc \in 1..Len(TrainStepBody)
    /\ TrainStepBody[frame.pc] = name

\* loss = train_step(x_train_tensor, y_train_tensor): enter the call
TrainStepCall ==
    /\ pc = "cell14_loop" /\ epoch < n_epochs /\ frame.pc = 0
    /\ frame' = [pc |-> 1, yhat |-> <<>>, loss |-> None,
                 pre |-> state_dict(modules[train_step.model], tensors),
                 bgrad |-> <<>>]
    /\ calls' = <<>>
    /\ UNCHANGED <<pc, epoch, env, rng, tensors, a, b, optimizer, loss_fn, modules,
                   model, train_step, loss, losses, hist, man>>

\* model.train()
TS_train ==
    /\ AtStmt("train")
    /\ modules' = train(modules, train_step.model)
    /\ frame' = [frame EXCEPT !.pc = @ + 1]
    /\ calls' = Append(calls, "train")
    /\ UNCHANGED <<pc, epoch, env, rng, tensors, a, b, optimizer, loss_fn,
                   model, train_step, loss, losses, hist, man>>

\* yhat = model(x)
TS_forward ==
    /\ AtStmt("forward")
    /\ frame' = [frame EXCEPT !.pc = @ + 1,
                   !.yhat = Affine(tensors, forward(modules[train_step.model]),
                                   x_train_tensor)]
    /\ calls' = Append(calls, "forward")
    /\ UNCHANGED <<pc, epoch, env, rng, tensors, a, b, optimizer, loss_fn, modules,
                   model, train_step, loss, losses, hist, man>>

\* loss = loss_fn(y, yhat)
TS_loss ==
    /\ AtStmt("loss")
    /\ frame' = [frame EXCEPT !.pc = @ + 1,
                   !.loss = MSELoss(train_step.loss_fn, y_train_tensor, frame.yhat)]
    /\ calls' = Append(calls, "loss")
    /\ UNCHANGED <<pc, epoch, env, rng, tensors, a, b, optimizer, loss_fn, modules,
                   model, train_step, loss, losses, hist, man>>

\* loss.backward()
TS_backward ==
    /\ AtStmt("backward")
    /\ LET m  == modules[train_step.model]
           lg == LeafGrads(forward(m), x_train_tensor,
                   MSELoss_grad_target(train_step.loss_fn, y_train_tensor, frame.yhat))
       IN  /\ tensors' = backward(tensors, lg)
           /\ frame' = [frame EXCEPT !.pc = @ + 1,
                          !.bgrad = [i \in 1..Len(m.params) |-> lg[m.params[i]]]]
    /\ calls' = Append(calls, "backward")
    /\ UNCHANGED <<pc, epoch, env, rng, a, b, optimizer, loss_fn, modules,
                   model, train_step, loss, losses, hist, man>>

\* optimizer.step()
TS_step ==
    /\ AtStmt("step")
    /\ tensors' = SGD_step(train_step.optimizer, tensors)
    /\ frame' = [frame EXCEPT !.pc = @ + 1]
    /\ calls' = Append(calls, "step")
    /\ UNCHANGED <<pc, epoch, env, rng, a, b, optimizer, loss_fn, modules,
                   model, train_step, loss, losses, hist, man>>

\* optimizer.zero_grad()
TS_zero_grad ==
    /\ AtStmt("zero_grad")
    /\ tensors' = SGD_zero_grad(train_step.optimizer, tensors)
    /\ frame' = [frame EXCEPT !.pc = @ + 1]
    /\ calls' = Append(calls, "zero_grad")
    /\ UNCHANGED <<pc, epoch, env, rng, a, b, optimizer, loss_fn, modules,
                   model, train_step, loss, losses, hist, man>>

\* return loss.item(); back in the loop: losses.append(loss)
TS_return ==
    /\ AtStmt("return")
    /\ loss' = frame.loss
    /\ losses' = Append(losses, frame.loss)
    /\ epoch' = epoch + 1
    /\ frame' = [frame EXCEPT !.pc = 0]
    /\ UNCHANGED <<pc, env, rng, tensors, a, b, optimizer, loss_fn, modules,
                   model, train_step, calls, hist, man>>

\* print(model.state_dict())
Cell14Print ==
    /\ pc = "cell14_loop" /\ epoch = n_epochs /\ frame.pc = 0
    /\ pc' = "done"
    /\ UNCHANGED <<epoch, env, rng, tensors, a, b, optimizer, loss_fn, modules, model,
                   train_step, loss, losses, frame, calls, hist, man>>

Next ==
    \/ Cell7 \/ Cell8Epoch \/ Cell8Print
    \/ Cell9Setup \/ Cell9Epoch \/ Cell9Print
    \/ Cell11Setup \/ Cell11Epoch \/ Cell11Print
    \/ Cell13 \/ Cell14Setup
    \/ TrainStepCall \/ TS_train \/ TS_forward \/ TS_loss \/ TS_backward
    \/ TS_step \/ TS_zero_grad \/ TS_return
    \/ Cell14Print

Spec == Init /\ [][Next]_vars

\* ----------------------------------------------------------------- claims
InFinalLoop == pc \in {"cell14_loop", "done"}
CallReturned == InFinalLoop /\ frame.pc = 0 /\ epoch > 0

ExpectedCalls == <<"train", "forward", "loss", "backward", "step", "zero_grad">>

\* C1: every call of train_step makes the calls model.train(), model(x),
\* loss_fn(y, yhat), loss.backward(), optimizer.step(), optimizer.zero_grad()
\* in this order, each exactly once, and then returns the loss it computed.
C1_OneCycleInOrder ==
    InFinalLoop =>
        /\ Len(calls) <= Len(ExpectedCalls)
        /\ calls = SubSeq(ExpectedCalls, 1, Len(calls))
        /\ frame.pc > 0 => Len(calls) = frame.pc - 1
        /\ CallReturned =>
              /\ calls = ExpectedCalls
              /\ Len(losses) = epoch
              /\ loss = frame.loss /\ losses[epoch] = frame.loss

C1_Witness ==
    /\ CallReturned /\ epoch = 2
    /\ calls = ExpectedCalls
    /\ frame.loss # None

\* C2: every call of train_step in the final loop moves each parameter of the
\* current model by -lr times the gradient backward() just computed for it,
\* whenever that gradient is nonzero.
C2_ModelUpdated ==
    CallReturned =>
        LET m == modules[model]
        IN  \A i \in 1..Len(m.params) :
               frame.bgrad[i] # Zero =>
                  tensors[m.params[i]].data = RSub(frame.pre[i], RMul(lr, frame.bgrad[i]))

\* C3: after train_step returns, the gradient of every parameter of the model it
\* ran on is zero or cleared, so each backward pass leaves in .grad the gradient
\* of that epoch's loss alone.
C3_GradsZeroAfterCall ==
    LET m == modules[train_step.model]
    IN  /\ CallReturned =>
              \A i \in 1..Len(m.params) : tensors[m.params[i]].grad \in {None, Zero}
        /\ AtStmt("step") =>
              \A i \in 1..Len(m.params) : tensors[m.params[i]].grad = frame.bgrad[i]

\* C4: after every epoch of the loop of cell 8 the optimizer-driven a and b, and
\* their gradients, equal those of the manual update started from the same
\* values, and the gradients are zero.
C4_OptimizerEqualsManual ==
    pc = "cell8" =>
        /\ tensors[a].data = man["a"].data /\ tensors[b].data = man["b"].data
        /\ tensors[a].grad = man["a"].grad /\ tensors[b].grad = man["b"].grad
        /\ epoch > 0 => tensors[a].grad = Zero /\ tensors[b].grad = Zero

C4_Witness ==
    /\ pc = "cell8" /\ epoch >= 2
    /\ tensors[a].data # hist["cell8"][1].a
    /\ tensors[b].data # hist["cell8"][1].b
    /\ tensors[a].data = man["a"].data

\* C5: in every epoch the loss loss_fn(y_train_tensor, yhat) of cell 9 and the
\* gradients it yields for a and b equal those of the manual loss of cell 8, and
\* so do a and b after the epoch.
C5_MSELossEqualsManual ==
    \A k \in 1..Len(hist["cell9"]) :
        k <= Len(hist["cell8"]) => hist["cell9"][k] = hist["cell8"][k]

C5_Witness ==
    /\ Len(hist["cell9"]) >= 3
    /\ hist["cell9"][2].loss # Zero
    /\ hist["cell9"][2].ga # Zero /\ hist["cell9"][2].gb # Zero
    /\ hist["cell9"][3] = hist["cell8"][3]

SameStart(h1, h2) ==
    /\ h1 # <<>> /\ h2 # <<>>
    /\ h1[1].a = h2[1].a /\ h1[1].b = h2[1].b

\* C6: the optimizer of cell 11 holds exactly the model's a and b, and when the
\* model starts from the a and b cell 9 started from, its state_dict after every
\* epoch equals the a and b of cell 9 after the same epoch.
C6_ModelEqualsExplicit ==
    /\ pc = "cell11_loop" => optimizer.params = <<"mlr.a", "mlr.b">>
    /\ SameStart(hist["cell11"], hist["cell9"]) =>
          \A k \in 1..Len(hist["cell11"]) :
              /\ hist["cell11"][k].a = hist["cell9"][k].a
              /\ hist["cell11"][k].b = hist["cell9"][k].b

C6_Witness ==
    /\ SameStart(hist["cell11"], hist["cell9"])
    /\ Len(hist["cell11"]) >= 3
    /\ hist["cell11"][1].a # hist["cell11"][1].b
    /\ hist["cell11"][2].ga # Zero
    /\ hist["cell11"][3].a = hist["cell9"][3].a

====
